---- MODULE Spec2Model ----
(***************************************************************************)
(* Model of tools/generate_boss_drops.py: the treasure-class resolution    *)
(* engine (nodrop_adjusted_weight, outcome_probs, leaf_dist,               *)
(* expected_counts_for_one_pick, expected_counts_per_kill).                *)
(*                                                                         *)
(* Python values are represented as follows.                               *)
(*   str cell of a TSV row   Blank (<<>>, the empty string) or <<n>>, the  *)
(*                           decimal numeral of the integer n              *)
(*   float                   an exact rational <<num, den>>, den > 0, in   *)
(*                           lowest terms                                  *)
(*   dict                    a sequence of <<key, value>> pairs with       *)
(*                           distinct keys, in insertion order             *)
(*   a call's outcome        [exc |-> "None", val |-> v, msg |-> ""] for a *)
(*                           return; for an uncaught exception exc is its  *)
(*                           class and msg its argument                    *)
(***************************************************************************)
EXTENDS Integers, Sequences, FiniteSets, TLC

VARIABLES tcdict, players, call, ret

vars == <<tcdict, players, call, ret>>

-----------------------------------------------------------------------------
(* Bounds of the model.                                                    *)

\* largest raw NoDrop weight and listed-weight sum passed directly to
\* nodrop_adjusted_weight
MaxRaw == 8
MaxSum == 8
\* how far outside the clamp range 1..8 the player-count argument is drawn
PlayerSlack == 2
\* largest weight in a Prob cell, NoDrop cell and |Picks| cell of a table row
MaxProb == 2
MaxNoDrop == 2
MaxPicks == 2

\* the clamp range of the player count
MinPlayers == 1
MaxPlayers == 8

-----------------------------------------------------------------------------
(* Exact rationals standing for Python floats.                             *)

Abs(n) == IF n < 0 THEN -n ELSE n

RECURSIVE GCD(_, _)
GCD(a, b) == IF b = 0 THEN a ELSE GCD(b, a % b)

\* n/d with the common factor g > 0 removed, d > 0
Reduced(n, d, g) == <<n \div g, d \div g>>

\* n/d in lowest terms, d # 0
Rat(n, d) ==
    IF d < 0 THEN Reduced(-n, -d, GCD(Abs(n), Abs(d)))
    ELSE Reduced(n, d, GCD(Abs(n), Abs(d)))

RInt(n) == <<n, 1>>

\* the sums and products cancel common factors before multiplying, which
\* keeps the intermediate integers small; the values are the exact ones
RAddOver(x, y, g) ==
    Rat(x[1] * (y[2] \div g) + y[1] * (x[2] \div g), x[2] * (y[2] \div g))
RAdd(x, y) == RAddOver(x, y, GCD(x[2], y[2]))
RNeg(x) == <<-x[1], x[2]>>
RSub(x, y) == RAdd(x, RNeg(y))
RMulOver(x, y, g1, g2) ==
    <<(x[1] \div g1) * (y[1] \div g2), (x[2] \div g2) * (y[2] \div g1)>>
RMul(x, y) == RMulOver(x, y, GCD(Abs(x[1]), y[2]), GCD(Abs(y[1]), x[2]))
\* y # 0
RInv(y) == IF y[1] < 0 THEN <<-y[2], -y[1]>> ELSE <<y[2], y[1]>>
RDiv(x, y) == RMul(x, RInv(y))
RLeq(x, y) == x[1] * y[2] <= y[1] * x[2]

RECURSIVE RPow(_, _)
RPow(x, e) == IF e = 0 THEN RInt(1) ELSE RMul(x, RPow(x, e - 1))

\* int(x) of a float: truncation toward zero
IntTrunc(x) ==
    IF x[1] >= 0 THEN x[1] \div x[2] ELSE -((-x[1]) \div x[2])

\* round(x) of a float: nearest integer, ties to the even one
\* q + r/d with 0 <= r < d
RoundFrom(q, r, d) ==
    IF 2 * r < d THEN q
    ELSE IF 2 * r > d THEN q + 1
    ELSE IF q % 2 = 0 THEN q ELSE q + 1
RoundHalfEven(x) == RoundFrom(x[1] \div x[2], x[1] % x[2], x[2])

-----------------------------------------------------------------------------
(* Outcomes of a call.                                                     *)

Return(v) == [exc |-> "None", val |-> v, msg |-> ""]
Raise(e, m) == [exc |-> e, val |-> <<>>, msg |-> m]
Returned(r) == r.exc = "None"

\* the arguments CPython gives the exceptions the code can raise
DivZeroInt == "division by zero"
DivZeroFloat == "float division by zero"
BadIntLiteral == "invalid literal for int() with base 10: ''"

-----------------------------------------------------------------------------
(* nodrop_adjusted_weight                                                  *)

\* players = max(1, min(8, int(players)))
ClampPlayers(p) ==
    IF p > MaxPlayers THEN MaxPlayers ELSE IF p < MinPlayers THEN MinPlayers ELSE p

\* the exponent rounded to the nearest integer instead of truncated
NdExpRounded(p) == RoundHalfEven(RAdd(Rat(ClampPlayers(p), 2), Rat(1, 2)))

\* nd_exp = int(float(players) / 2.0 + 0.5)
NdExp(p) == IntTrunc(RAdd(Rat(ClampPlayers(p), 2), Rat(1, 2)))

\* numerator and denominator of the odds exchanged
NodropFinalInverted(ratio, sumprobs) ==
    IF ratio = RInt(0) THEN RInt(0)
    ELSE RMul(RDiv(RSub(RInt(1), ratio), ratio), RInt(sumprobs))

\* nodrop_final = ((ratio) / (1 - ratio)) * sumprobs, for ratio # 1
NodropFinal(ratio, sumprobs) ==
    RMul(RDiv(ratio, RSub(RInt(1), ratio)), RInt(sumprobs))

\* ratio = (nodrop_orig / (nodrop_orig + sumprobs)) ** nd_exp; the division
\* is Python's true division of two ints and raises on a zero divisor
NodropRatio(nodrop_orig, sumprobs, p) ==
    IF nodrop_orig + sumprobs = 0 THEN Raise("ZeroDivisionError", DivZeroInt)
    ELSE Return(RPow(Rat(nodrop_orig, nodrop_orig + sumprobs), NdExp(p)))

\* lines 54-55: the float division raises when 1 - ratio is 0.0
NodropFromRatio(ratio, sumprobs) ==
    IF RSub(RInt(1), ratio) = RInt(0) THEN Raise("ZeroDivisionError", DivZeroFloat)
    ELSE Return(RoundHalfEven(NodropFinal(ratio, sumprobs)))

\* lines 54-55 after line 53: an exception of line 53 propagates
NodropAfterRatio(ratio, sumprobs) ==
    IF ~Returned(ratio) THEN ratio ELSE NodropFromRatio(ratio.val, sumprobs)

\* a guard that keeps the raw weight when there is nothing to scale against
NodropAdjustedWeightGuarded(nodrop_orig, sumprobs, p) ==
    IF sumprobs = 0 THEN Return(nodrop_orig)
    ELSE NodropAfterRatio(NodropRatio(nodrop_orig, sumprobs, p), sumprobs)

\* The whole function.
NodropAdjustedWeight(nodrop_orig, sumprobs, p) ==
    NodropAfterRatio(NodropRatio(nodrop_orig, sumprobs, p), sumprobs)

-----------------------------------------------------------------------------
(* Python dicts: sequences of <<key, value>> pairs with distinct keys.     *)

EmptyDict == <<>>
DictHas(d, k) == \E i \in 1..Len(d) : d[i][1] = k
DictIndex(d, k) == CHOOSE i \in 1..Len(d) : d[i][1] = k
DictGet(d, k) == d[DictIndex(d, k)][2]

\* d[k] = v: an existing key keeps its position and takes the new value
DictPut(d, k, v) ==
    IF DictHas(d, k) THEN [d EXCEPT ![DictIndex(d, k)] = <<k, v>>]
    ELSE Append(d, <<k, v>>)

\* d[k] of a defaultdict(float): a missing key reads as 0.0
DictGetFloat(d, k) == IF DictHas(d, k) THEN DictGet(d, k) ELSE RInt(0)

\* d[k] += v on a defaultdict(float)
DictAdd(d, k, v) == DictPut(d, k, RAdd(DictGetFloat(d, k), v))

-----------------------------------------------------------------------------
(* The treasure-class table as csv.DictReader yields it: a row maps each   *)
(* column of the header to the text of its cell.                           *)

Blank == <<>>
Num(n) == <<n>>

\* the columns whose name starts with "Item", in header order, and the
\* column f"Prob{n}"
ItemCols == <<"Item1", "Item2">>
ProbCols == <<"Prob1", "Prob2">>

\* the outcome names of the model that start with "gld"
GoldNames == {"gld,mul=1280"}

\* item1.startswith("gld")
StartsWithGld(name) == name \in GoldNames

\* int(text): a blank cell is not a numeral
IntOf(cell) ==
    IF cell = Blank THEN Raise("ValueError", BadIntLiteral) ELSE Return(cell[1])

\* int(row.get("Picks") or 1)
PicksOf(row) == IF row["Picks"] = Blank THEN 1 ELSE row["Picks"][1]

RECURSIVE SumSeq(_)
SumSeq(s) == IF s = <<>> THEN 0 ELSE Head(s) + SumSeq(Tail(s))

-----------------------------------------------------------------------------
(* outcome_probs                                                           *)

\* for k, v in row.items():
\*     if k.startswith("Item") and v:
\*         items.append(v); probs.append(int(row[f"Prob{len(items)}"]))
\* from column i on
RECURSIVE ListedPairs(_, _, _, _)

\* probs.append(w), w the outcome of int(...), then the columns after i
ListedWeight(row, i, items, probs, w) ==
    IF ~Returned(w)
    THEN [exc |-> w.exc, msg |-> w.msg, items |-> items, probs |-> probs]
    ELSE ListedPairs(row, i + 1, items, Append(probs, w.val))

\* the weight read for the item just appended: row[f"Prob{len(items)}"]
ListedItem(row, i, items, probs) ==
    ListedWeight(row, i, items, probs, IntOf(row[ProbCols[Len(items)]]))

ListedPairs(row, i, items, probs) ==
    IF i > Len(ItemCols)
    THEN [exc |-> "None", msg |-> "", items |-> items, probs |-> probs]
    ELSE IF row[ItemCols[i]] = "" THEN ListedPairs(row, i + 1, items, probs)
    ELSE ListedItem(row, i, Append(items, row[ItemCols[i]]), probs)

\* {items[i]: probs[i] / total for i in range(len(items))}, from index i on
RECURSIVE Normalized(_, _, _, _, _)
Normalized(items, probs, total, i, d) ==
    IF i > Len(items) THEN Return(d)
    ELSE IF total = 0 THEN Raise("ZeroDivisionError", DivZeroFloat)
    ELSE Normalized(items, probs, total, i + 1,
                    DictPut(d, items[i], Rat(probs[i], total)))

\* lines 66-73: the NoDrop entry, the total and the normalisation
\* lines 72-73: total = float(sum(probs)) and the dict
NormalizedAll(items, probs) == Normalized(items, probs, SumSeq(probs), 1, EmptyDict)

\* lines 70-71, nd the outcome of line 69
NoDropAppended(items, probs, nd) ==
    IF ~Returned(nd) THEN nd
    ELSE NormalizedAll(Append(items, ""), Append(probs, nd.val))

\* lines 66-73: the NoDrop entry, the total and the normalisation
WithNoDrop(row, items, probs, p) ==
    IF row["NoDrop"] # Blank
    THEN NoDropAppended(items, probs,
                        NodropAdjustedWeight(row["NoDrop"][1], SumSeq(probs), p))
    ELSE NormalizedAll(items, probs)

\* lines 66-73 after the loop of lines 62-65, lp the outcome of the loop
OutcomeProbsOfListed(row, lp, p) ==
    IF lp.exc # "None" THEN Raise(lp.exc, lp.msg)
    ELSE WithNoDrop(row, lp.items, lp.probs, p)

OutcomeProbs(tc, tcd, p) ==
    IF tc \notin DOMAIN tcd THEN Raise("KeyError", tc)
    ELSE OutcomeProbsOfListed(tcd[tc], ListedPairs(tcd[tc], 1, <<>>, <<>>), p)

-----------------------------------------------------------------------------
(* leaf_dist.  A call yields [exc, val, msg, memo]: its outcome and the    *)
(* memo as the call leaves it.                                             *)

Done(v, memo) == [exc |-> "None", val |-> v, msg |-> "", memo |-> memo]
Failed(r, memo) == [exc |-> r.exc, val |-> EmptyDict, msg |-> r.msg, memo |-> memo]
Outcome(r) == [exc |-> r.exc, val |-> r.val, msg |-> r.msg]

\* key = f"{tc_or_item}::p{players}"
MemoKey(tc, p) == <<tc, p>>

\* for k, v in sub.items(): dist[k] += p * v, from index i on
RECURSIVE AddScaled(_, _, _, _)
AddScaled(dist, sub, pr, i) ==
    IF i > Len(sub) THEN dist
    ELSE AddScaled(DictAdd(dist, sub[i][1], RMul(pr, sub[i][2])), sub, pr, i + 1)

\* an identifier that is no row of the table rejected as a lookup failure
TerminalLeafRejected(tc_or_item, memo) == Failed(Raise("KeyError", tc_or_item), memo)

\* line 81: return {tc_or_item: 1.0}
TerminalLeaf(tc_or_item, memo) == Done(<<<<tc_or_item, RInt(1)>>>>, memo)

RECURSIVE LeafDist(_, _, _, _)
RECURSIVE LeafDistLoop(_, _, _, _, _, _)

\* lines 92-93, sub the outcome of line 91, then the outcomes after i
LeafDistSub(op, i, dist, tcd, p, sub) ==
    IF sub.exc # "None" THEN sub
    ELSE LeafDistLoop(op, i + 1, AddScaled(dist, sub.val, op[i][2], 1),
                      tcd, p, sub.memo)

\* the loop of lines 87-95 over outcome_probs(...).items(), from index i on
LeafDistLoop(op, i, dist, tcd, p, memo) ==
    IF i > Len(op) THEN Done(dist, memo)
    ELSE IF op[i][1] = "" THEN LeafDistLoop(op, i + 1, dist, tcd, p, memo)
    ELSE IF op[i][1] \in DOMAIN tcd
    THEN LeafDistSub(op, i, dist, tcd, p, LeafDist(op[i][1], tcd, p, memo))
    ELSE LeafDistLoop(op, i + 1, DictAdd(dist, op[i][1], op[i][2]), tcd, p, memo)

\* lines 96-97, r the outcome of the loop
LeafDistMemoized(tc_or_item, p, r) ==
    IF r.exc # "None" THEN r
    ELSE Done(r.val, DictPut(r.memo, MemoKey(tc_or_item, p), r.val))

\* lines 86-97, op the outcome of outcome_probs(tc_or_item, ...)
LeafDistOfOutcomes(tc_or_item, tcd, p, memo, op) ==
    IF ~Returned(op) THEN Failed(op, memo)
    ELSE LeafDistMemoized(tc_or_item, p,
                          LeafDistLoop(op.val, 1, EmptyDict, tcd, p, memo))

LeafDist(tc_or_item, tcd, p, memo) ==
    IF tc_or_item = "" THEN Done(EmptyDict, memo)
    ELSE IF tc_or_item \notin DOMAIN tcd
    THEN TerminalLeaf(tc_or_item, memo)
    ELSE IF DictHas(memo, MemoKey(tc_or_item, p))
    THEN Done(DictGet(memo, MemoKey(tc_or_item, p)), memo)
    ELSE LeafDistOfOutcomes(tc_or_item, tcd, p, memo,
                            OutcomeProbs(tc_or_item, tcd, p))

-----------------------------------------------------------------------------
(* expected_counts_for_one_pick                                            *)

\* for leaf, p_leaf in ld.items(): out[leaf] += p1 * inner_picks * p_leaf
RECURSIVE AddPicked(_, _, _, _, _)
AddPicked(out, ld, p1, inner_picks, i) ==
    IF i > Len(ld) THEN out
    ELSE AddPicked(DictAdd(out, ld[i][1],
                           RMul(RMul(p1, RInt(inner_picks)), ld[i][2])),
                   ld, p1, inner_picks, i + 1)

\* the loop of lines 103-112, from index i on
RECURSIVE OnePickLoop(_, _, _, _, _, _)

\* lines 107-110, ld the outcome of line 108, then the outcomes after i
OnePickInner(op, i, out, tcd, p, ld) ==
    IF ld.exc # "None" THEN ld
    ELSE OnePickLoop(op, i + 1,
                     AddPicked(out, ld.val, op[i][2], PicksOf(tcd[op[i][1]]), 1),
                     tcd, p, ld.memo)

OnePickLoop(op, i, out, tcd, p, memo) ==
    IF i > Len(op) THEN Done(out, memo)
    ELSE IF op[i][1] = "" THEN OnePickLoop(op, i + 1, out, tcd, p, memo)
    ELSE IF op[i][1] \in DOMAIN tcd
    THEN OnePickInner(op, i, out, tcd, p, LeafDist(op[i][1], tcd, p, memo))
    ELSE OnePickLoop(op, i + 1, DictAdd(out, op[i][1], op[i][2]), tcd, p, memo)

\* lines 102-113, op the outcome of outcome_probs(root_tc, ...)
OnePickOfOutcomes(op, tcd, p, memo) ==
    IF ~Returned(op) THEN Failed(op, memo)
    ELSE OnePickLoop(op.val, 1, EmptyDict, tcd, p, memo)

ExpectedCountsForOnePick(root_tc, tcd, p, memo) ==
    OnePickOfOutcomes(OutcomeProbs(root_tc, tcd, p), tcd, p, memo)

-----------------------------------------------------------------------------
(* expected_counts_per_kill                                                *)

\* the declared Picks used as they are
PicksAfterGoldKept(row) == PicksOf(row)

\* lines 118 and 130-133: the declared Picks, less one (not below 0) when it
\* is positive and Item1 starts with "gld"
PicksAfterGold(row) ==
    IF PicksOf(row) > 0 /\ StartsWithGld(row["Item1"])
    THEN (IF PicksOf(row) - 1 > 0 THEN PicksOf(row) - 1 ELSE 0)
    ELSE PicksOf(row)

\* lines 137-142: the same collection as in outcome_probs, written out again
RECURSIVE InnerTcs(_, _, _, _)

\* rollnum.append(n), n the outcome of int(...), then the columns after i
InnerRollnum(row, i, innertcs, rollnum, n) ==
    IF ~Returned(n)
    THEN [exc |-> n.exc, msg |-> n.msg, innertcs |-> innertcs, rollnum |-> rollnum]
    ELSE InnerTcs(row, i + 1, innertcs, Append(rollnum, n.val))

\* the count read for the name just appended: row[f"Prob{len(innertcs)}"]
InnerTc(row, i, innertcs, rollnum) ==
    InnerRollnum(row, i, innertcs, rollnum, IntOf(row[ProbCols[Len(innertcs)]]))

InnerTcs(row, i, innertcs, rollnum) ==
    IF i > Len(ItemCols)
    THEN [exc |-> "None", msg |-> "", innertcs |-> innertcs, rollnum |-> rollnum]
    ELSE IF row[ItemCols[i]] = "" THEN InnerTcs(row, i + 1, innertcs, rollnum)
    ELSE InnerTc(row, i, Append(innertcs, row[ItemCols[i]]), rollnum)

\* [tc] * n
Repeat(tc, n) == [j \in 1..n |-> tc]

\* for tc, n in zip(innertcs, rollnum): rollseq.extend([tc] * n), from i on
RECURSIVE Extended(_, _, _, _)
Extended(innertcs, rollnum, i, rollseq) ==
    IF i > Len(innertcs) THEN rollseq
    ELSE Extended(innertcs, rollnum, i + 1, rollseq \o Repeat(innertcs[i], rollnum[i]))

\* rollseq[: abs(picks)]
Truncated(rollseq, picks) ==
    SubSeq(rollseq, 1, IF Abs(picks) < Len(rollseq) THEN Abs(picks) ELSE Len(rollseq))

\* the loop of lines 149-153, from index i on
RECURSIVE RollLoop(_, _, _, _, _, _)

\* line 150: inner_picks = int(tcdict[tc_roll].get("Picks") or 1)
\*           if tc_roll in tcdict else 1
InnerPicks(tc_roll, tcd) ==
    IF tc_roll \in DOMAIN tcd THEN PicksOf(tcd[tc_roll]) ELSE 1

\* lines 152-153, ld the outcome of line 151, then the rolls after i
RollLeaf(rollseq, i, out, tcd, p, ld) ==
    IF ld.exc # "None" THEN ld
    ELSE RollLoop(rollseq, i + 1,
                  AddPicked(out, ld.val, RInt(1), InnerPicks(rollseq[i], tcd), 1),
                  tcd, p, ld.memo)

RollLoop(rollseq, i, out, tcd, p, memo) ==
    IF i > Len(rollseq) THEN Done(out, memo)
    ELSE RollLeaf(rollseq, i, out, tcd, p, LeafDist(rollseq[i], tcd, p, memo))

\* {k: v * picks for k, v in one.items()}
Scaled(one, picks) == [i \in 1..Len(one) |-> <<one[i][1], RMul(one[i][2], RInt(picks))>>]

\* The outcome of the function, given together with its local variables picks
\* (as after line 133) and rollseq (as after line 146).
PerKill(r, v, picks, rollseq) ==
    [exc |-> r.exc, val |-> v, msg |-> r.msg, picks |-> picks, rollseq |-> rollseq]

\* line 154, r the outcome of the loop of lines 149-153
PerKillRolled(r, picks, rollseq) == PerKill(r, r.val, picks, rollseq)

\* lines 148-154: the vector of the deterministic sequence
PerKillOfRolls(rollseq, picks, tcd, p) ==
    PerKillRolled(RollLoop(rollseq, 1, EmptyDict, tcd, p, EmptyDict), picks, rollseq)

\* lines 143-154, given the outcome of lines 137-142
PerKillNegative(it, picks, tcd, p) ==
    IF it.exc # "None" THEN PerKill(it, EmptyDict, picks, <<>>)
    ELSE PerKillOfRolls(Truncated(Extended(it.innertcs, it.rollnum, 1, <<>>), picks),
                        picks, tcd, p)

\* line 158, given the outcome of line 157
PerKillPositive(one, picks) ==
    IF one.exc # "None" THEN PerKill(one, EmptyDict, picks, <<>>)
    ELSE PerKill(one, Scaled(one.val, picks), picks, <<>>)

\* lines 136-158, given the picks of lines 118-133
PerKillWithPicks(root_tc, picks, tcd, p) ==
    IF picks < 0 THEN PerKillNegative(InnerTcs(tcd[root_tc], 1, <<>>, <<>>), picks, tcd, p)
    ELSE PerKillPositive(ExpectedCountsForOnePick(root_tc, tcd, p, EmptyDict), picks)

ExpectedCountsPerKill(root_tc, tcd, p) ==
    IF root_tc \notin DOMAIN tcd
    THEN PerKill(Raise("KeyError", root_tc), EmptyDict, 0, <<>>)
    ELSE PerKillWithPicks(root_tc, PicksAfterGold(tcd[root_tc]), tcd, p)

-----------------------------------------------------------------------------
(* Specification of direct calls of nodrop_adjusted_weight.                *)

NoCall == [fn |-> "none"]
NoTable == <<>>

InitND ==
    /\ tcdict = NoTable
    /\ players \in (MinPlayers - PlayerSlack)..(MaxPlayers + PlayerSlack)
    /\ call = NoCall
    /\ ret = Return(0)

CallNodrop ==
    /\ call.fn = "none"
    /\ \E raw \in 0..MaxRaw, s \in 0..MaxSum :
          /\ call' = [fn |-> "nodrop_adjusted_weight", nodrop_orig |-> raw,
                      sumprobs |-> s, nd_exp |-> NdExp(players)]
          /\ ret' = NodropAdjustedWeight(raw, s, players)
    /\ UNCHANGED <<tcdict, players>>

NextND == CallNodrop

SpecND == InitND /\ [][NextND]_vars

-----------------------------------------------------------------------------
(* Specification of the calls on a loaded table.  The table holds the row  *)
(* "Root", whose cells range over the bounded sets below, and possibly the *)
(* row "Mid", one of the rows of MidRows; the outcome "Mid" of Root names  *)
(* that row when it is loaded and is a terminal code otherwise.  Rows      *)
(* refer only downwards, so the table is acyclic.                          *)

Row(picks, nodrop, item1, prob1, item2, prob2) ==
    [Picks |-> picks, NoDrop |-> nodrop, Item1 |-> item1, Prob1 |-> prob1,
     Item2 |-> item2, Prob2 |-> prob2]

NumCells(lo, hi) == {Num(n) : n \in lo..hi}
PicksCells == {Blank} \cup NumCells(-MaxPicks, MaxPicks)
NoDropCells == {Blank} \cup NumCells(0, MaxNoDrop)
\* a listed outcome carries a weight; the Prob cell of an empty Item cell may
\* be empty as well
ProbCells(item) ==
    IF item = "" THEN {Blank} \cup NumCells(0, MaxProb) ELSE NumCells(0, MaxProb)

RootItems == {"", "gld,mul=1280", "r01", "Mid"}

RootRows ==
    {Row(pk, nd, i1, p1, i2, p2) :
        pk \in PicksCells, nd \in NoDropCells,
        <<i1, p1>> \in UNION {{<<i, w>> : w \in ProbCells(i)} : i \in RootItems},
        <<i2, p2>> \in UNION {{<<i, w>> : w \in ProbCells(i)} : i \in RootItems}}

MidRows ==
    { Row(Blank, Blank, "r01", Num(1), "r02", Num(1)),
      Row(Num(2), Num(1), "r01", Num(1), "", Blank),
      Row(Num(-1), Blank, "r01", Num(1), "r02", Num(2)),
      Row(Blank, Blank, "r01", Num(1), "r01", Num(1)),
      Row(Blank, Blank, "r01", Num(0), "", Blank) }

Tables ==
    {[k \in {"Root"} |-> root] : root \in RootRows}
    \cup {[k \in {"Root", "Mid"} |-> IF k = "Root" THEN root ELSE mid] :
            root \in RootRows, mid \in MidRows}

TablePlayers == {1, 3}

\* node references passed to leaf_dist directly, and root identifiers passed
\* to expected_counts_per_kill ("Boss" is never a row of the table)
LeafRefs == {"", "r01", "Root", "Mid"}
RootRefs == {"Root", "Boss"}

Init ==
    /\ tcdict \in Tables
    /\ players \in TablePlayers
    /\ call = NoCall
    /\ ret = Return(0)

CallOutcomeProbs ==
    /\ call.fn = "none"
    /\ \E tc \in DOMAIN tcdict :
          /\ call' = [fn |-> "outcome_probs", tc |-> tc]
          /\ ret' = OutcomeProbs(tc, tcdict, players)
    /\ UNCHANGED <<tcdict, players>>

CallLeafDist ==
    /\ call.fn = "none"
    /\ \E ref \in LeafRefs :
          /\ call' = [fn |-> "leaf_dist", tc |-> ref]
          /\ ret' = Outcome(LeafDist(ref, tcdict, players, EmptyDict))
    /\ UNCHANGED <<tcdict, players>>

CallOnePick ==
    /\ call.fn = "none"
    /\ \E root \in DOMAIN tcdict \cap RootRefs :
          /\ call' = [fn |-> "expected_counts_for_one_pick", tc |-> root]
          /\ ret' = Outcome(ExpectedCountsForOnePick(root, tcdict, players, EmptyDict))
    /\ UNCHANGED <<tcdict, players>>

CallPerKill ==
    /\ call.fn = "none"
    /\ \E root \in RootRefs :
          /\ call' = [fn |-> "expected_counts_per_kill", tc |-> root]
          /\ ret' = ExpectedCountsPerKill(root, tcdict, players)
    /\ UNCHANGED <<tcdict, players>>

Next == CallOutcomeProbs \/ CallLeafDist \/ CallOnePick \/ CallPerKill

Spec == Init /\ [][Next]_vars

-----------------------------------------------------------------------------
(* Claims about nodrop_adjusted_weight, checked under SpecND.              *)

NodropReturned == call.fn = "nodrop_adjusted_weight" /\ Returned(ret)

RECURSIVE IPow(_, _)
IPow(b, e) == IF e = 0 THEN 1 ELSE b * IPow(b, e - 1)

\* the player count as the claims clamp it
ClaimClamp(p) == IF p < 1 THEN 1 ELSE IF p > 8 THEN 8 ELSE p

\* v is round(num / den) for den > 0: a nearest integer, the even one on a tie
IsRoundOf(v, num, den) ==
    LET diff == 2 * (v * den - num)
    IN  /\ Abs(diff) <= den
        /\ Abs(diff) = den => v % 2 = 0

\* with ratio = (raw / (raw + s)) ** e, (ratio / (1 - ratio)) * s is
\* raw^e * s / ((raw + s)^e - raw^e)
IsClaimedWeight(v, raw, s, e) ==
    IsRoundOf(v, IPow(raw, e) * s, IPow(raw + s, e) - IPow(raw, e))

\* C3, amended: for a fixed raw no-drop weight and a fixed sum of listed
\* weights, a larger player count never gives a larger adjusted no-drop
\* weight: for p < q in 1..8, adjusted(raw, s, q) <= adjusted(raw, s, p).
C3_NeverIncreases ==
    NodropReturned /\ players \in 1..8 =>
        \A q \in (players + 1)..8 :
            LET rq == NodropAdjustedWeight(call.nodrop_orig, call.sumprobs, q)
            IN  Returned(rq) /\ rq.val <= ret.val

\* C3 as stated: a larger player count never gives a smaller adjusted weight.
C3_NeverDecreases ==
    NodropReturned /\ players \in 1..8 =>
        \A q \in (players + 1)..8 :
            LET rq == NodropAdjustedWeight(call.nodrop_orig, call.sumprobs, q)
            IN  Returned(rq) /\ rq.val >= ret.val

\* a call at one player whose weight is strictly above the weight at eight
C3_Witness ==
    /\ NodropReturned
    /\ players = 1
    /\ LET r8 == NodropAdjustedWeight(call.nodrop_orig, call.sumprobs, 8)
       IN  Returned(r8) /\ r8.val < ret.val

\* C9, amended: with p the player count clamped to 1..8, the exponent is
\* p/2 + 0.5 truncated to an integer (1,1,2,2,3,3,4,4 for p = 1..8), and the
\* returned weight is round((ratio / (1 - ratio)) * s) for
\* ratio = (raw / (raw + s)) ** e.
C9_TruncatedExponent ==
    NodropReturned =>
        LET e == (ClaimClamp(players) + 1) \div 2
        IN  /\ call.nd_exp = e
            /\ IsClaimedWeight(ret.val, call.nodrop_orig, call.sumprobs, e)

\* C9 as stated: the exponent is p/2 + 0.5 rounded to the nearest integer
\* (ties to even, as round() does; 1.5 rounds to 2 under every tie rule).
C9_RoundedExponent ==
    NodropReturned =>
        LET p == ClaimClamp(players)
            e == IF p % 2 = 1 THEN (p + 1) \div 2
                 ELSE IF ((p \div 2) % 2) = 0 THEN p \div 2 ELSE (p \div 2) + 1
        IN  /\ call.nd_exp = e
            /\ IsClaimedWeight(ret.val, call.nodrop_orig, call.sumprobs, e)

\* an even player count above the clamp range, with a weight that rounds to
\* a positive integer
C9_Witness ==
    /\ NodropReturned
    /\ players > 8
    /\ call.nd_exp = 4
    /\ ret.val > 0
    /\ ret.val < call.nodrop_orig

-----------------------------------------------------------------------------
(* Claims about the calls on a table, checked under Spec.                  *)

RECURSIVE DictSum(_)
DictSum(d) == IF d = <<>> THEN RInt(0) ELSE RAdd(Head(d)[2], DictSum(Tail(d)))

NonNegative(d) == \A i \in 1..Len(d) : d[i][2][1] >= 0

\* the listed outcomes of a row as the claims read them: every non-empty
\* Item cell, in column order, with the weight of its own Prob column
OwnColumns(row) == SelectSeq([i \in 1..Len(ItemCols) |-> i],
                             LAMBDA i : row[ItemCols[i]] # "")
OwnItem(row, j) == row[ItemCols[OwnColumns(row)[j]]]
OwnWeight(row, j) == row[ProbCols[OwnColumns(row)[j]]][1]
OwnCount(row) == Len(OwnColumns(row))
OwnSum(row) == SumSeq([j \in 1..OwnCount(row) |-> OwnWeight(row, j)])
OwnDistinct(row) ==
    \A i, j \in 1..OwnCount(row) : OwnItem(row, i) = OwnItem(row, j) => i = j

HasRawNoDrop(row) == row["NoDrop"] # Blank /\ row["NoDrop"][1] # 0

\* the rows reachable from a node reference along any path
RECURSIVE Reach(_, _)
Reach(ref, tcd) ==
    IF ref \notin DOMAIN tcd THEN {}
    ELSE {ref} \cup UNION {Reach(tcd[ref][ItemCols[i]], tcd) : i \in 1..Len(ItemCols)}

\* the identifiers a row lists that are no row of the table
UnknownRefs(row, tcd) ==
    {row[ItemCols[i]] : i \in 1..Len(ItemCols)} \ (DOMAIN tcd \cup {""})

Called(fn) == call.fn = fn
CalledOnRow(fn) == call.fn = fn /\ call.tc \in DOMAIN tcdict

\* C1: the probabilities outcome_probs returns sum to exactly 1, for any row
\* (empty outcome columns, repeated outcome names and zero weights included)
\* and any player count.  Stated for the rows that list at least one outcome.
C1_SumIsOne ==
    /\ CalledOnRow("outcome_probs") /\ Returned(ret)
    /\ OwnCount(tcdict[call.tc]) > 0
    => DictSum(ret.val) = RInt(1)

\* C2: the probabilities leaf_dist returns for a node reference sum to a value
\* in [0, 1], and to exactly 1 when no row reachable from the node carries a
\* nonzero raw NoDrop weight.  Stated for the references from which every
\* reachable row lists at least one outcome (the empty reference is the dead
\* end of line 78, not a node reference).
C2_LeafSum ==
    /\ Called("leaf_dist") /\ call.tc # "" /\ Returned(ret)
    /\ \A r \in Reach(call.tc, tcdict) : OwnCount(tcdict[r]) > 0
    => LET total == DictSum(ret.val)
       IN  /\ RLeq(RInt(0), total)
           /\ RLeq(total, RInt(1))
           /\ (\A r \in Reach(call.tc, tcdict) : ~HasRawNoDrop(tcdict[r]))
                 => total = RInt(1)

RECURSIVE OwnSequence(_, _)
OwnSequence(row, j) ==
    IF j > OwnCount(row) THEN <<>>
    ELSE Repeat(OwnItem(row, j), OwnWeight(row, j)) \o OwnSequence(row, j + 1)

\* C5: for a root with negative Picks = -k, expected_counts_per_kill consumes
\* the first min(k, length) entries of the sequence that repeats each listed
\* outcome by its declared weight, and returns the sum over the consumed
\* entries of the entry's own Picks times its leaf distribution.
C5_DeterministicSequence ==
    CalledOnRow("expected_counts_per_kill") /\ Returned(ret) =>
        LET row == tcdict[call.tc]
            k == -PicksOf(row)
            seq == OwnSequence(row, 1)
            consumed == SubSeq(seq, 1, IF k < Len(seq) THEN k ELSE Len(seq))
        IN  k > 0 =>
              /\ ret.rollseq = consumed
              /\ ret.val = RollLoop(consumed, 1, EmptyDict, tcdict, players, EmptyDict).val

\* C6, amended: an unknown root identifier ends expected_counts_per_kill in a
\* KeyError naming it, with no vector returned; an identifier a row lists as
\* an outcome that is no row of the table is not a failure: leaf_dist
\* resolves it as a terminal code with probability 1, and a call on a known
\* root never ends in a lookup failure.
C6_UnknownRootFails ==
    /\ Called("expected_counts_per_kill") /\ call.tc \notin DOMAIN tcdict =>
          ret.exc = "KeyError" /\ ret.msg = call.tc /\ ret.val = EmptyDict
    /\ CalledOnRow("expected_counts_per_kill") => ret.exc # "KeyError"
    /\ Called("leaf_dist") /\ call.tc \notin DOMAIN tcdict /\ call.tc # "" =>
          Returned(ret) /\ ret.val = <<<<call.tc, RInt(1)>>>>

\* C6 as stated: with an unknown root, or an unknown identifier listed by the
\* root row, no vector is returned.
C6_UnknownAlwaysFails ==
    /\ Called("expected_counts_per_kill")
    /\ \/ call.tc \notin DOMAIN tcdict
       \/ UnknownRefs(tcdict[call.tc], tcdict) # {}
    => ~Returned(ret)

\* a root whose only outcome names no row of the table: the call returns and
\* counts that identifier as a terminal code
C6_Witness ==
    /\ CalledOnRow("expected_counts_per_kill")
    /\ "Mid" \notin DOMAIN tcdict
    /\ tcdict[call.tc]["Item1"] = "Mid"
    /\ tcdict[call.tc]["Item2"] = ""
    /\ Returned(ret)
    /\ ret.val = <<<<"Mid", RInt(1)>>>>

\* ratio = (raw / (raw + s)) ** e is exactly 1
RatioIsOne(raw, s, e) == raw + s # 0 /\ IPow(raw, e) = IPow(raw + s, e)

\* the raw NoDrop weight and listed-weight sum of a call of outcome_probs that
\* reaches line 66 with a NoDrop cell
ReachesNoDrop ==
    /\ CalledOnRow("outcome_probs")
    /\ tcdict[call.tc]["NoDrop"] # Blank
    /\ ListedPairs(tcdict[call.tc], 1, <<>>, <<>>).exc = "None"
RawNoDrop == tcdict[call.tc]["NoDrop"][1]
ListedSum == SumSeq(ListedPairs(tcdict[call.tc], 1, <<>>, <<>>).probs)

\* C7, amended: whenever the ratio is exactly 1, outcome_probs ends in an
\* uncaught ZeroDivisionError ("float division by zero", which does not name
\* the row) and returns no distribution; whenever it returns for a row with a
\* NoDrop cell, the no-drop entry is present and nonnegative.
C7_RatioOneRaises ==
    ReachesNoDrop =>
        /\ RatioIsOne(RawNoDrop, ListedSum, (ClaimClamp(players) + 1) \div 2) =>
              ret.exc = "ZeroDivisionError" /\ ret.msg = DivZeroFloat
        /\ Returned(ret) => DictHas(ret.val, "") /\ DictGet(ret.val, "")[1] >= 0

\* C7 as stated: the error raised when the ratio is exactly 1 identifies the
\* offending row.
C7_ErrorNamesRow ==
    ReachesNoDrop =>
        /\ RatioIsOne(RawNoDrop, ListedSum, (ClaimClamp(players) + 1) \div 2) =>
              ~Returned(ret) /\ ret.msg = call.tc
        /\ Returned(ret) => DictHas(ret.val, "") /\ DictGet(ret.val, "")[1] >= 0

\* a row with raw NoDrop 1 whose only listed outcome has weight 0
C7_Witness ==
    /\ CalledOnRow("outcome_probs")
    /\ tcdict[call.tc]["NoDrop"] = Num(1)
    /\ tcdict[call.tc]["Item1"] = "r01"
    /\ tcdict[call.tc]["Prob1"] = Num(0)
    /\ tcdict[call.tc]["Item2"] = ""
    /\ ret.exc = "ZeroDivisionError"

\* C8: every entry of the vector expected_counts_per_kill or
\* expected_counts_for_one_pick returns is nonnegative, whatever integer Picks
\* the rows carry.
C8_NonNegativeCounts ==
    (Called("expected_counts_per_kill") \/ Called("expected_counts_for_one_pick"))
        /\ Returned(ret) => NonNegative(ret.val)

\* C10: for a row whose listed outcome names are distinct, outcome_probs gives
\* each listed outcome with weight > 0 the probability
\* (its own declared weight) / (sum of the listed weights + adjusted no-drop
\* weight), also when an empty outcome column precedes it.
C10_OwnDeclaredWeight ==
    CalledOnRow("outcome_probs") =>
        LET row == tcdict[call.tc]
            s == OwnSum(row)
            nd == IF row["NoDrop"] = Blank THEN 0
                  ELSE NodropAdjustedWeight(row["NoDrop"][1], s, players).val
        IN  OwnDistinct(row) =>
              \A j \in 1..OwnCount(row) :
                  OwnWeight(row, j) > 0 =>
                      /\ Returned(ret)
                      /\ DictHas(ret.val, OwnItem(row, j))
                      /\ DictGet(ret.val, OwnItem(row, j)) = Rat(OwnWeight(row, j), s + nd)

====
